---- MODULE Spec2Model ----
(***************************************************************************)
(* Model of prefect/orion/utilities/database.py: the engine and session    *)
(* factory registries (get_engine, get_session_factory, create_db, the     *)
(* setup_sqlite connect listener, the import-time get_dialect check), the  *)
(* Timestamp bind adapter and the JSON predicate compilers.                *)
(***************************************************************************)
EXTENDS Integers, Sequences, FiniteSets, TLC

(***************************************************************************)
(* Bounds of the model.                                                    *)
(***************************************************************************)
MaxEngines == 2       \* Engine objects constructed in one run
MaxSessions == 2      \* AsyncSession objects constructed in one run

\* Tasks (asyncio.current_task() identities) and the event loop each runs on.
Tasks == {"t1", "t2", "t3"}
TaskLoop(t) == IF t = "t3" THEN "loopB" ELSE "loopA"
Loops == {TaskLoop(t) : t \in Tasks}

(***************************************************************************)
(* Connection URLs, as sequences of tokens: scheme, driver, "://",         *)
(* authority, "/", the database part, then "?" and the query parameters.   *)
(* str.startswith compares the first token, `x in s` looks for a token.    *)
(***************************************************************************)
UrlMemory == <<"sqlite", "+aiosqlite", "://", "", "/", ":memory:">>
UrlModeMemory ==
    <<"sqlite", "+aiosqlite", "://", "", "/", "file:orion", "?", "mode=memory", "uri=true">>
UrlFile == <<"sqlite", "+aiosqlite", "://", "", "/", "/tmp/orion.db">>
UrlPostgres == <<"postgresql", "+asyncpg", "://", "user@host", "/", "orion">>
UrlMysql == <<"mysql", "+aiomysql", "://", "user@host", "/", "orion">>
URLs == {UrlMemory, UrlModeMemory, UrlFile, UrlPostgres, UrlMysql}
\* The URLs the settings may hold: a supported one and an unsupported one.
SettingsUrls == {UrlMemory, UrlMysql}

\* Python's None, and Optional arguments as sequences of length 0 or 1.
None == <<>>
\* echo=None reads the settings, where echo is off.
EchoArgs == {None, <<TRUE>>}

StartsWith(s, prefix) == Len(s) > 0 /\ s[1] = prefix
In(x, s) == \E i \in DOMAIN s : s[i] = x

RECURSIVE IndexOf(_, _, _)
IndexOf(s, x, i) ==
    IF i > Len(s) THEN Len(s) + 1
    ELSE IF s[i] = x THEN i ELSE IndexOf(s, x, i + 1)

\* engine.url.database: what follows the "/" after the authority, up to "?".
UrlDatabase(url) == SubSeq(url, IndexOf(url, "/", 1) + 1, IndexOf(url, "?", 1) - 1)
\* engine.dialect.name, engine.url.get_backend_name(): the scheme.
BackendName(url) == url[1]

\* The sqlite targets that live in memory and never appear on disk.
IsMemoryTarget(url) == In(":memory:", url) \/ In("mode=memory", url)

VARIABLES
    module,             \* import state of the module: "init", "loaded", "failed"
    settings,           \* prefect.settings.orion.database
    ENGINES,            \* the ENGINES dict: cache key -> Engine
    SESSION_FACTORIES,  \* the SESSION_FACTORIES dict: (loop, bind) -> factory
    engines,            \* every Engine object constructed, by identity
    factories,          \* every async_scoped_session constructed, by identity
    sessions,           \* every AsyncSession constructed, by identity
    exists,             \* the database files on disk (os.path.exists)
    listener,           \* TRUE while the once=True setup_sqlite listener is armed
    pc,                 \* where each task is suspended
    local,              \* each task's locals across the await in get_engine
    returned,           \* every (caller loop, key, Engine) get_engine returned,
                        \* and whether the cache had it
    yielded,            \* every (factory, task, session) a factory call
                        \* returned, and whether the registry had it
    op,                 \* the last adapter or predicate call
    res                 \* and its result

regVars == <<module, settings, ENGINES, SESSION_FACTORIES, engines, factories,
             sessions, exists, listener, pc, local, returned, yielded>>
vars == <<module, settings, ENGINES, SESSION_FACTORIES, engines, factories,
          sessions, exists, listener, pc, local, returned, yielded, op, res>>

NoLocal == [key |-> <<>>, engine |-> 0, via |-> "none"]
NoCall == [kind |-> "none"]

(***************************************************************************)
(* get_dialect and the import-time `assert get_dialect()`.                 *)
(***************************************************************************)
\* get_dialect with its last branch falling back to sqlite instead of raising.
GetDialectDefaultSqlite(connection_url) ==
    IF StartsWith(connection_url, "postgresql") THEN "postgresql" ELSE "sqlite"

GetDialect(connection_url) ==
    IF StartsWith(connection_url, "postgresql") THEN "postgresql"
    ELSE IF StartsWith(connection_url, "sqlite") THEN "sqlite"
    ELSE "ValueError"

\* Module import, line 538: the ValueError of get_dialect() ends the import.
LoadModule ==
    /\ module = "init"
    /\ module' = IF GetDialect(settings.url) = "ValueError"
                 THEN "failed" ELSE "loaded"
    /\ UNCHANGED <<settings, ENGINES, SESSION_FACTORIES, engines, factories,
                   sessions, exists, listener, pc, local, returned,
                   yielded, op, res>>

(***************************************************************************)
(* get_engine.                                                             *)
(***************************************************************************)
\* The cache key without the event loop.
CacheKeyNoLoop(loop, connection_url, echo) == <<connection_url, echo>>
\* The membership test made on the other registry.
CacheMissWrongDict(cache_key) == cache_key \notin DOMAIN SESSION_FACTORIES

CacheKey(loop, connection_url, echo) == <<loop, connection_url, echo>>
CacheMiss(cache_key) == cache_key \notin DOMAIN ENGINES

\* The pool test without its ":memory:" conjunct.
NeedsLongLivedPoolAnySqlite(connection_url) == StartsWith(connection_url, "sqlite")

\* line 65: the pool that outlives its connections is asked for only here.
NeedsLongLivedPool(connection_url) ==
    StartsWith(connection_url, "sqlite") /\ In(":memory:", connection_url)

\* lines 71-75: a new sqlite database gets all database objects created.
NeedsBootstrap(connection_url, onDisk) ==
    /\ BackendName(connection_url) = "sqlite"
    /\ \/ In(":memory:", UrlDatabase(connection_url))
       \/ In("mode=memory", UrlDatabase(connection_url))
       \/ UrlDatabase(connection_url) \notin onDisk

CreateAsyncEngine(loop, connection_url, echo) ==
    [loop |-> loop, url |-> connection_url, echo |-> echo,
     poolclass |-> IF NeedsLongLivedPool(connection_url)
                   THEN "SingletonThreadPool" ELSE "default",
     created |-> 0, connected |-> FALSE, fk |-> 0]

Store(d, k, v) == [x \in DOMAIN d \cup {k} |-> IF x = k THEN v ELSE d[x]]

\* sqlite creates the database file of a file target; memory targets have none.
FileOf(url) ==
    IF BackendName(url) = "sqlite" /\ ~IsMemoryTarget(url)
    THEN {UrlDatabase(url)} ELSE {}

(***************************************************************************)
(* setup_sqlite: listens_for(Engine, "engine_connect", once=True).  The    *)
(* listener is registered on the Engine class, so it hears the connects of *)
(* every engine, and once=True lets it run for the first event only.       *)
(***************************************************************************)
SetupSqlite(engine) ==
    IF BackendName(engine.url) = "sqlite"
    THEN [engine EXCEPT !.fk = @ + 1]
    ELSE engine

\* A connection-open event on engine e: the heap of engines afterwards.
EngineConnect(e) ==
    [engines EXCEPT ![e] =
        LET opened == [@ EXCEPT !.connected = TRUE]
        IN IF listener THEN SetupSqlite(opened) ELSE opened]

(***************************************************************************)
(* get_session_factory, lines 99-115, for a bind that is not None.         *)
(***************************************************************************)
\* scopefunc=get_event_loop: sessions keyed by the loop, not by the task.
ScopeIsLoop(t) == TaskLoop(t)

\* scopefunc=current_task: the registry of sessions is keyed by the task.
ScopeFunc(t) == t

FactoryKey(loop, bind) == <<loop, bind>>

\* What a returning get_engine call leaves behind: the record of the return
\* and, when get_session_factory(bind=None) made the call, lines 99-115 run
\* in the same step (nothing is awaited between the return and line 115).
LookupFactory(t, bind) ==
    LET cache_key == FactoryKey(TaskLoop(t), bind)
        new == Len(factories) + 1
    IN IF cache_key \notin DOMAIN SESSION_FACTORIES
       THEN /\ factories' = Append(factories, [bind |-> bind, registry |-> <<>>])
            /\ SESSION_FACTORIES' = Store(SESSION_FACTORIES, cache_key, new)
       ELSE UNCHANGED <<factories, SESSION_FACTORIES>>

Return(t, cache_key, e, via, hit) ==
    /\ returned' = returned \cup
          {[loop |-> TaskLoop(t), key |-> cache_key, engine |-> e, hit |-> hit]}
    /\ IF via = "get_session_factory"
       THEN LookupFactory(t, e)
       ELSE UNCHANGED <<factories, SESSION_FACTORIES>>

\* get_engine up to its first suspension: lines 52-75, and lines 78-79 too
\* when the key is cached or no create_db is awaited.
GetEngineCall(t, connection_url, echo_arg, via) ==
    LET url == IF connection_url = None THEN settings.url ELSE connection_url
        echo == IF echo_arg = None THEN settings.echo ELSE echo_arg[1]
        loop == TaskLoop(t)
        cache_key == CacheKey(loop, url, echo)
        new == Len(engines) + 1
    IN /\ module = "loaded"
       /\ pc[t] = "idle"
       /\ IF ~CacheMiss(cache_key)
          THEN /\ Return(t, cache_key, ENGINES[cache_key], via, TRUE)
               /\ UNCHANGED <<ENGINES, engines, pc, local>>
          ELSE /\ Len(engines) < MaxEngines
               /\ engines' = Append(engines, CreateAsyncEngine(loop, url, echo))
               /\ IF NeedsBootstrap(url, exists)
                  THEN /\ pc' = [pc EXCEPT ![t] = "create_db"]
                       /\ local' = [local EXCEPT ![t] =
                             [key |-> cache_key, engine |-> new, via |-> via]]
                       /\ UNCHANGED <<ENGINES, returned, factories,
                                      SESSION_FACTORIES>>
                  ELSE /\ ENGINES' = Store(ENGINES, cache_key, new)
                       /\ Return(t, cache_key, new, via, FALSE)
                       /\ UNCHANGED <<pc, local>>
       /\ UNCHANGED <<module, settings, sessions, exists, listener, yielded,
                      op, res>>

GetEngine(t) ==
    \E connection_url \in URLs \cup {None}, echo \in EchoArgs :
        GetEngineCall(t, connection_url, echo, "get_engine")

\* create_db, line 517: engine.begin() opens a connection (the task is
\* suspended before and after).  sqlite may create the file already here.
CreateDbBegin(t) ==
    /\ pc[t] = "create_db"
    /\ engines' = EngineConnect(local[t].engine)
    /\ listener' = FALSE
    /\ \E made \in {{}, FileOf(engines[local[t].engine].url)} :
          exists' = exists \cup made
    /\ pc' = [pc EXCEPT ![t] = "create_all"]
    /\ UNCHANGED <<module, settings, ENGINES, SESSION_FACTORIES, factories,
                   sessions, local, returned, yielded, op, res>>

\* create_db, line 518, the commit, and get_engine's lines 78-79.
CreateDbFinish(t) ==
    LET e == local[t].engine
    IN /\ pc[t] = "create_all"
       /\ engines' = [engines EXCEPT ![e].created = @ + 1]
       /\ exists' = exists \cup FileOf(engines[e].url)
       /\ ENGINES' = Store(ENGINES, local[t].key, e)
       /\ Return(t, local[t].key, e, local[t].via, FALSE)
       /\ pc' = [pc EXCEPT ![t] = "idle"]
       /\ local' = [local EXCEPT ![t] = NoLocal]
       /\ UNCHANGED <<module, settings, sessions, listener, yielded, op, res>>

\* The engines callers hold: those get_engine has returned.
Held == {r.engine : r \in returned}
\* The engines a task holds: those get_engine has returned on its loop.
HeldBy(t) == {r.engine : r \in {x \in returned : x.loop = TaskLoop(t)}}

\* A later connection-open event on an engine in use.
Connect(e) ==
    /\ e \in Held
    /\ engines' = EngineConnect(e)
    /\ listener' = FALSE
    /\ UNCHANGED <<module, settings, ENGINES, SESSION_FACTORIES, factories,
                   sessions, exists, pc, local, returned, yielded, op, res>>

\* get_session_factory(bind): bind None awaits get_engine() first.
GetSessionFactory(t) ==
    \/ GetEngineCall(t, None, None, "get_session_factory")
    \/ \E bind \in HeldBy(t) :
          /\ module = "loaded"
          /\ pc[t] = "idle"
          /\ LookupFactory(t, bind)
          /\ UNCHANGED <<module, settings, ENGINES, engines, sessions, exists,
                         listener, pc, local, returned, yielded, op, res>>

\* The factories a task holds: those get_session_factory returns on its loop.
FactoriesOf(t) ==
    {SESSION_FACTORIES[k] : k \in {x \in DOMAIN SESSION_FACTORIES : x[1] = TaskLoop(t)}}

\* A call of factory f by task t: ScopedRegistry.__call__ keyed by scopefunc().
SessionRequest(t, f) ==
    LET scope == ScopeFunc(t)
        registry == factories[f].registry
        new == Len(sessions) + 1
    IN /\ f \in FactoriesOf(t)
       /\ pc[t] = "idle"
       /\ IF scope \in DOMAIN registry
          THEN /\ yielded' = yielded \cup
                     {[factory |-> f, task |-> t, session |-> registry[scope],
                       hit |-> TRUE]}
               /\ UNCHANGED <<factories, sessions>>
          ELSE /\ Len(sessions) < MaxSessions
               /\ sessions' = Append(sessions, [bind |-> factories[f].bind])
               /\ factories' = [factories EXCEPT
                                   ![f].registry = Store(registry, scope, new)]
               /\ yielded' = yielded \cup
                     {[factory |-> f, task |-> t, session |-> new, hit |-> FALSE]}
       /\ UNCHANGED <<module, settings, ENGINES, SESSION_FACTORIES, engines,
                      exists, listener, pc, local, returned, op, res>>

(***************************************************************************)
(* Timestamp.process_bind_param.  A datetime is its wall-clock hour, its   *)
(* tzinfo (aware or not) and the UTC offset of that tzinfo in hours.       *)
(***************************************************************************)
MaxHour == 5
Offsets == {-5, 0, 2}
Dialects == {"postgresql", "sqlite"}

PyNone == [kind |-> "None"]
Raise(error) == [kind |-> "raise", error |-> error]
Datetime(hour, aware, offset) ==
    [kind |-> "datetime", hour |-> hour, aware |-> aware, offset |-> offset]

Datetimes ==
    {Datetime(h, TRUE, o) : h \in 0..MaxHour, o \in Offsets}
        \cup {Datetime(h, FALSE, 0) : h \in 0..MaxHour}

\* pendulum.instance(value).in_timezone("UTC"): the same instant, in UTC.
InTimezoneUTC(value) == Datetime(value.hour - value.offset, TRUE, 0)

\* process_bind_param without the tzinfo check: a naive value is taken as UTC.
ProcessBindParamAssumeUTC(value, dialect) ==
    IF value = PyNone THEN PyNone
    ELSE IF dialect = "sqlite" THEN InTimezoneUTC(value)
    ELSE value

ProcessBindParam(value, dialect) ==
    IF value = PyNone THEN PyNone
    ELSE IF ~value.aware THEN Raise("ValueError")
    ELSE IF dialect = "sqlite" THEN InTimezoneUTC(value)
    ELSE value

\* The calls of process_bind_param the model makes.
TimestampCalls ==
    {[kind |-> "process_bind_param", value |-> value, dialect |-> dialect] :
        value \in Datetimes \cup {PyNone}, dialect \in Dialects}

BindTimestamp ==
    /\ op.kind = "process_bind_param"
    /\ res = NoCall
    /\ res' = ProcessBindParam(op.value, op.dialect)
    /\ UNCHANGED <<op, regVars>>

(***************************************************************************)
(* JSON values (documents, and the Python values given to a predicate).    *)
(***************************************************************************)
MaxLen == 2           \* elements of an array, of a values list, of a key list

JNull == [t |-> "null", v |-> 0]
JBool(b) == [t |-> "bool", v |-> b]
JNum(n) == [t |-> "num", v |-> n]
JStr(str) == [t |-> "str", v |-> str]
JArr(elems) == [t |-> "arr", v |-> elems]
JObj(items) == [t |-> "obj", v |-> items]    \* items: <<key, value>> pairs

IsContainer(j) == j.t \in {"arr", "obj"}
Keys(j) == {j.v[i][1] : i \in DOMAIN j.v}

SeqsUpTo(S, n) == UNION {[1..k -> S] : k \in 0..n}

Scalars == {JNull, JBool(TRUE), JNum(1), JStr("a"), JStr("b")}
Elems == Scalars \cup {JArr(<<JNum(1)>>), JObj(<<<<"a", JNum(1)>>>>),
                       JObj(<<<<"a", JNum(1)>>, <<"b", JStr("a")>>>>)}
Arrays == {JArr(a) : a \in SeqsUpTo(Elems, MaxLen)}
Objects ==
    {JObj(<<>>)} \cup {JObj(<<<<k, x>>>>) : k \in {"a", "b"}, x \in Elems}
        \cup {JObj(<<<<"a", x>>, <<"b", y>>>>) : x \in Elems, y \in Elems}
Documents == Arrays \cup Objects \cup Scalars
KeyLists == SeqsUpTo({JStr("a"), JStr("b"), JStr("c"), JNum(1)}, MaxLen)
ValueLists == SeqsUpTo(Elems, MaxLen)

\* json.dumps(v, separators=(",", ":")), which is also the minified text
\* sqlite's json_each gives for an element that is an array or an object.
Digits == <<"0", "1", "2", "3", "4", "5", "6", "7", "8", "9">>
RECURSIVE Dumps(_)
RECURSIVE DumpsItems(_, _, _)
DumpsItems(items, isObj, i) ==
    IF i > Len(items) THEN ""
    ELSE (IF i > 1 THEN "," ELSE "")
         \o (IF isObj THEN "\"" \o items[i][1] \o "\":" \o Dumps(items[i][2])
             ELSE Dumps(items[i]))
         \o DumpsItems(items, isObj, i + 1)
Dumps(j) ==
    CASE j.t = "null" -> "null"
      [] j.t = "bool" -> (IF j.v THEN "true" ELSE "false")
      [] j.t = "num" -> Digits[j.v + 1]
      [] j.t = "str" -> "\"" \o j.v \o "\""
      [] j.t = "arr" -> "[" \o DumpsItems(j.v, FALSE, 1) \o "]"
      [] j.t = "obj" -> "{" \o DumpsItems(j.v, TRUE, 1) \o "}"

(***************************************************************************)
(* The sqlite side: json_each(expr) and SQL comparison of its value column *)
(* with a bound parameter.                                                 *)
(***************************************************************************)
SqlNull == [t |-> "NULL", v |-> ""]
SqlInt(n) == [t |-> "INTEGER", v |-> n]
SqlText(str) == [t |-> "TEXT", v |-> str]

\* json_each.value of an element: SQL NULL, INTEGER (true is 1) or TEXT.
SqlValue(j) ==
    CASE j.t = "null" -> SqlNull
      [] j.t = "bool" -> SqlInt(IF j.v THEN 1 ELSE 0)
      [] j.t = "num" -> SqlInt(j.v)
      [] j.t = "str" -> SqlText(j.v)
      [] IsContainer(j) -> SqlText(Dumps(j))

\* The rows of json_each(expr): the elements of an array, the members of an
\* object, or the one row of a scalar.
JsonEach(expr) ==
    CASE expr.t = "arr" -> [i \in DOMAIN expr.v |-> [key |-> SqlInt(i - 1),
                                                    value |-> SqlValue(expr.v[i])]]
      [] expr.t = "obj" -> [i \in DOMAIN expr.v |-> [key |-> SqlText(expr.v[i][1]),
                                                    value |-> SqlValue(expr.v[i][2])]]
      [] OTHER -> <<[key |-> SqlNull, value |-> SqlValue(expr)]>>

\* column == v: IS NULL for None, else =, which NULL never satisfies and
\* which holds between values of one storage class only.
SqlEquals(column, v) ==
    IF v.t = "NULL" THEN column.t = "NULL"
    ELSE column.t = v.t /\ column.v = v.v

\* SELECT 1 FROM json_each(expr) WHERE json_each.value = v ... EXISTS
ExistsValue(expr, v) ==
    \E i \in DOMAIN JsonEach(expr) : SqlEquals(JsonEach(expr)[i].value, v)

\* json_contains_sqlite, lines 339-365.
json_contains_sqlite(json_expr, values) ==
    LET json_values == [i \in DOMAIN values |->
                           IF IsContainer(values[i])
                           THEN SqlText(Dumps(values[i]))
                           ELSE SqlValue(values[i])]
    IN IF json_values = <<>> THEN TRUE
       ELSE \A i \in DOMAIN json_values : ExistsValue(json_expr, json_values[i])

\* json_has_any_key_sqlite, lines 395-404: json_each.value IN (values).
json_has_any_key_sqlite(json_expr, values) ==
    \E i \in DOMAIN JsonEach(json_expr) : \E k \in DOMAIN values :
        SqlEquals(JsonEach(json_expr)[i].value, SqlText(values[k].v))

\* json_has_all_keys_sqlite as one any-key match over the whole key list.
json_has_all_keys_sqlite_as_any(json_expr, values) ==
    json_has_any_key_sqlite(json_expr, values)

\* json_has_all_keys_sqlite, lines 434-442.
json_has_all_keys_sqlite(json_expr, values) ==
    IF values = <<>> THEN TRUE
    ELSE \A k \in DOMAIN values : json_has_any_key_sqlite(json_expr, <<values[k]>>)

(***************************************************************************)
(* The postgresql side: the JSONB operators @>, ?| and ?&.                 *)
(***************************************************************************)
\* Containment below the top level: scalars by equality, arrays and objects
\* structurally, never across kinds.
RECURSIVE JsonbDeepContains(_, _)
JsonbDeepContains(a, b) ==
    CASE a.t = "arr" /\ b.t = "arr" ->
            \A i \in DOMAIN b.v : \E k \in DOMAIN a.v :
                JsonbDeepContains(a.v[k], b.v[i])
      [] a.t = "obj" /\ b.t = "obj" ->
            \A i \in DOMAIN b.v : \E k \in DOMAIN a.v :
                /\ a.v[k][1] = b.v[i][1]
                /\ JsonbDeepContains(a.v[k][2], b.v[i][2])
      [] OTHER -> ~IsContainer(a) /\ ~IsContainer(b) /\ a = b

\* expr @> values, values bound as a JSON array: a top-level scalar or
\* object never contains an array.
json_contains_postgresql(json_expr, values) ==
    json_expr.t = "arr" /\ JsonbDeepContains(json_expr, JArr(values))

\* jsonb ? text: a key of an object, a string element of an array, or the
\* string itself.
JsonbExists(expr, str) ==
    CASE expr.t = "obj" -> str \in Keys(expr)
      [] expr.t = "arr" -> \E i \in DOMAIN expr.v : expr.v[i] = JStr(str)
      [] OTHER -> expr = JStr(str)

\* json_has_any_key_postgresql, lines 381-391: expr ?| array[values].
json_has_any_key_postgresql(json_expr, values) ==
    \E k \in DOMAIN values : JsonbExists(json_expr, values[k].v)

\* json_has_all_keys_postgresql, lines 420-430: expr ?& array[values].
json_has_all_keys_postgresql(json_expr, values) ==
    \A k \in DOMAIN values : JsonbExists(json_expr, values[k].v)

\* The constructors of json_has_any_key and json_has_all_keys accept
\* strings only.
AllStrings(values) == \A k \in DOMAIN values : values[k].t = "str"

Verdicts(postgresql, sqlite) ==
    [kind |-> "bool", postgresql |-> postgresql, sqlite |-> sqlite]

\* The predicates the model builds, each with the document it is run on.
PredicateCalls(kind, argLists) ==
    {[kind |-> kind, doc |-> doc, values |-> values] :
        doc \in Documents, values \in argLists}

EvalContains ==
    /\ op.kind = "json_contains"
    /\ res = NoCall
    /\ res' = Verdicts(json_contains_postgresql(op.doc, op.values),
                       json_contains_sqlite(op.doc, op.values))
    /\ UNCHANGED <<op, regVars>>

EvalHasAnyKey ==
    /\ op.kind = "json_has_any_key"
    /\ res = NoCall
    /\ res' = IF ~AllStrings(op.values) THEN Raise("ValueError")
              ELSE Verdicts(json_has_any_key_postgresql(op.doc, op.values),
                            json_has_any_key_sqlite(op.doc, op.values))
    /\ UNCHANGED <<op, regVars>>

EvalHasAllKeys ==
    /\ op.kind = "json_has_all_keys"
    /\ res = NoCall
    /\ res' = IF ~AllStrings(op.values) THEN Raise("ValueError")
              ELSE Verdicts(json_has_all_keys_postgresql(op.doc, op.values),
                            json_has_all_keys_sqlite(op.doc, op.values))
    /\ UNCHANGED <<op, regVars>>

RegistryInit ==
    /\ module = "init"
    /\ ENGINES = <<>>
    /\ SESSION_FACTORIES = <<>>
    /\ engines = <<>>
    /\ factories = <<>>
    /\ sessions = <<>>
    /\ exists = {}
    /\ listener = TRUE
    /\ pc = [t \in Tasks |-> "idle"]
    /\ local = [t \in Tasks |-> NoLocal]
    /\ returned = {}
    /\ yielded = {}

Init ==
    /\ RegistryInit
    /\ settings \in [url : SettingsUrls, echo : {FALSE}]
    /\ op = NoCall
    /\ res = NoCall

\* A process configured for either supported dialect.
SessionInit ==
    /\ RegistryInit
    /\ settings \in [url : {UrlMemory, UrlPostgres}, echo : {FALSE}]
    /\ op = NoCall
    /\ res = NoCall

\* The engine registry: get_engine under any interleaving of the tasks.
Next ==
    \/ LoadModule
    \/ \E t \in Tasks : GetEngine(t)
    \/ \E t \in Tasks : CreateDbBegin(t)
    \/ \E t \in Tasks : CreateDbFinish(t)

Spec == Init /\ [][Next]_vars

\* The engine registry with the connections its callers open afterwards.
ConnectNext ==
    \/ LoadModule
    \/ \E t \in Tasks : GetEngine(t)
    \/ \E t \in Tasks : CreateDbBegin(t)
    \/ \E t \in Tasks : CreateDbFinish(t)
    \/ \E e \in 1..MaxEngines : Connect(e)

ConnectSpec == Init /\ [][ConnectNext]_vars

\* get_engine calls one at a time: a call starts when no call is suspended.
AllIdle == \A t \in Tasks : pc[t] = "idle"

SeqNext ==
    \/ LoadModule
    \/ \E t \in Tasks : AllIdle /\ GetEngine(t)
    \/ \E t \in Tasks : CreateDbBegin(t)
    \/ \E t \in Tasks : CreateDbFinish(t)

SeqSpec == Init /\ [][SeqNext]_vars

\* The session registry: callers of get_session_factory and of the factory.
SessionNext ==
    \/ LoadModule
    \/ \E t \in Tasks : GetSessionFactory(t)
    \/ \E t \in Tasks : CreateDbBegin(t)
    \/ \E t \in Tasks : CreateDbFinish(t)
    \/ \E t \in Tasks, f \in 1..Len(factories) : SessionRequest(t, f)

SessionSpec == SessionInit /\ [][SessionNext]_vars

\* The value adapters and predicate compilers: one call, of any of them,
\* on any of the inputs.
AdapterInit ==
    /\ RegistryInit
    /\ settings = [url |-> UrlMemory, echo |-> FALSE]
    /\ \/ op \in TimestampCalls
       \/ op \in PredicateCalls("json_contains", ValueLists)
       \/ op \in PredicateCalls("json_has_any_key", KeyLists)
       \/ op \in PredicateCalls("json_has_all_keys", KeyLists)
    /\ res = NoCall

AdapterNext ==
    \/ BindTimestamp
    \/ EvalContains
    \/ EvalHasAnyKey
    \/ EvalHasAllKeys

AdapterSpec == AdapterInit /\ [][AdapterNext]_vars

(***************************************************************************)
(* The claims.                                                             *)
(***************************************************************************)
EngineIds == DOMAIN engines
KeyOf(e) == <<engines[e].loop, engines[e].url, engines[e].echo>>
IsSqlite(url) == StartsWith(url, "sqlite")
Recognized(url) == StartsWith(url, "postgresql") \/ StartsWith(url, "sqlite")

\* C1: under any interleaving of get_engine calls on one event loop, a
\* ConnectionKey (loop, URL, echo) has one Engine for the life of the
\* process: at most one Engine is ever constructed for the key, every call
\* with the key returns that Engine, and the key's ENGINES entry, once
\* written, is the Engine every later call returns (it is never replaced).
C1_OneEnginePerKey ==
    /\ \A e1, e2 \in EngineIds : KeyOf(e1) = KeyOf(e2) => e1 = e2
    /\ \A r1, r2 \in returned : r1.key = r2.key => r1.engine = r2.engine
    /\ \A r \in returned : r.key \in DOMAIN ENGINES /\ ENGINES[r.key] = r.engine

\* C2: when get_engine calls are made one after the other (each returns
\* before the next starts), all calls with one key return the identical
\* cached Engine, one Engine is constructed for the key, and for a fresh
\* sqlite target (in memory, or a file no earlier engine has created)
\* create_db has run exactly once on it.
FreshTarget(e) ==
    /\ IsSqlite(engines[e].url)
    /\ \/ IsMemoryTarget(engines[e].url)
       \/ \A e2 \in 1..(e - 1) : FileOf(engines[e2].url) # FileOf(engines[e].url)
C2_SequentialCallsShareEngine ==
    \A r \in returned :
        /\ \A r2 \in returned : r2.key = r.key => r2.engine = r.engine
        /\ Cardinality({e \in EngineIds : KeyOf(e) = r.key}) = 1
        /\ ENGINES[r.key] = r.engine
        /\ engines[r.engine].created =
              (IF FreshTarget(r.engine) THEN 1 ELSE 0)

\* C2 witness: a fresh in-memory target whose key was asked for again and
\* served from the cache, after exactly one create_db.
C2_Witness ==
    \E r \in returned :
        /\ r.hit
        /\ engines[r.engine].url = UrlMemory
        /\ engines[r.engine].created = 1
        /\ [r EXCEPT !.hit = FALSE] \in returned

\* C3: foreign-key enforcement is enabled exactly once for every sqlite
\* engine that has opened a connection, also when another engine (of either
\* dialect) connected earlier in the process.
C3_ForeignKeysOncePerSqliteEngine ==
    \A e \in EngineIds :
        (IsSqlite(engines[e].url) /\ engines[e].connected) => engines[e].fk = 1

C5_UnrecognizedUrlNeverCreatesEngine ==
    /\ \A e \in EngineIds : Recognized(engines[e].url)
    /\ \A r \in returned : Recognized(engines[r.engine].url)

\* C5 (amended): when the configured URL's scheme is neither postgresql nor
\* sqlite, the import of the module fails with the unrecognized-dialect
\* error, so no get_engine call runs: no Engine is constructed and ENGINES
\* stays empty.
C5_UnrecognizedSettingsFailImport ==
    ~Recognized(settings.url) =>
        /\ module # "loaded"
        /\ engines = <<>>
        /\ DOMAIN ENGINES = {}

\* C5 witness: the import has failed on an unrecognized configured URL.
C5_Witness ==
    /\ module = "failed"
    /\ ~Recognized(settings.url)

\* C6: an Engine is returned only to callers on the event loop it was
\* created under, so calls under different loops never get the same Engine.
C6_EnginePerLoop ==
    /\ \A r \in returned : engines[r.engine].loop = r.loop
    /\ \A r1, r2 \in returned : r1.loop # r2.loop => r1.engine # r2.engine

\* C6 witness: the same URL and echo flag returned on two loops, as two
\* engines.
C6_Witness ==
    \E r1, r2 \in returned :
        /\ r1.loop # r2.loop
        /\ engines[r1.engine].url = engines[r2.engine].url
        /\ engines[r1.engine].echo = engines[r2.engine].echo
        /\ r1.engine # r2.engine

\* C7: a session factory yields one session per task, the same at every
\* request of that task, and distinct sessions to distinct tasks, all bound
\* to the factory's one Engine.
C7_SessionsScopedByTask ==
    \A y1, y2 \in yielded :
        y1.factory = y2.factory =>
            /\ y1.task = y2.task => y1.session = y2.session
            /\ y1.task # y2.task => y1.session # y2.session
            /\ sessions[y1.session].bind = factories[y1.factory].bind
            /\ sessions[y2.session].bind = factories[y1.factory].bind

\* C7 witness: one factory asked twice by one task and once by another.
C7_Witness ==
    \E y1, y2, y3 \in yielded :
        /\ y1.factory = y2.factory /\ y2.factory = y3.factory
        /\ y1.task = y2.task /\ ~y1.hit /\ y2.hit
        /\ y3.task # y1.task
        /\ y3.session # y1.session

EmptyKeyCall(kind) == op.kind = kind /\ op.values = <<>> /\ res # NoCall

\* C8 (as claimed): has_any_key(expr, []) and has_all_keys(expr, []) are
\* true on both dialects, for every document.
C8_EmptyKeySetIsTrue ==
    (EmptyKeyCall("json_has_any_key") \/ EmptyKeyCall("json_has_all_keys"))
        => (res.postgresql /\ res.sqlite)

\* C8 (amended): for every document, has_all_keys(expr, []) is true on both
\* dialects and has_any_key(expr, []) is false on both dialects.
C8_EmptyKeySet ==
    /\ EmptyKeyCall("json_has_all_keys") => res = Verdicts(TRUE, TRUE)
    /\ EmptyKeyCall("json_has_any_key") => res = Verdicts(FALSE, FALSE)

\* C8 witness: has_all_keys with no keys evaluated, true on both dialects,
\* on a document that has keys.
C8_Witness ==
    /\ EmptyKeyCall("json_has_all_keys")
    /\ op.doc = JObj(<<<<"a", JNum(1)>>>>)
    /\ res = Verdicts(TRUE, TRUE)

\* C9: for Contains, HasAnyKey and HasAllKeys and every document, the
\* postgresql compilation and the sqlite compilation give the same boolean.
C9_DialectInvariant ==
    res.kind = "bool" => res.postgresql = res.sqlite

\* C10: process_bind_param rejects a datetime without tzinfo with a
\* ValueError on both dialects, and every datetime it returns is aware.
C10_NaiveRejected ==
    (op.kind = "process_bind_param" /\ res # NoCall) =>
        /\ (op.value # PyNone /\ ~op.value.aware) => res = Raise("ValueError")
        /\ res.kind = "datetime" => res.aware
        /\ res = PyNone <=> op.value = PyNone

\* C10 witness: a naive datetime bound for sqlite, rejected.
C10_Witness ==
    /\ op.kind = "process_bind_param"
    /\ op.dialect = "sqlite"
    /\ op.value.kind = "datetime" /\ ~op.value.aware
    /\ res = Raise("ValueError")

====
